---- MODULE Spec2Model ----
(***************************************************************************)
(* Model of src/app.py: the pizza-sales upload service.                    *)
(*                                                                         *)
(*   process_pizza_data  (Transformer)  CSV bytes -> transformed dataset   *)
(*   calculate_metrics   (Aggregator)   dataset   -> metrics record        *)
(*   upload_file, get_metrics, get_raw_data, get_uploaded_files,           *)
(*   health_check        the request handlers over processed_data_store    *)
(*                                                                         *)
(* Conventions.  Text that the code takes apart or builds (file names,     *)
(* order_date, order_time, formatted timestamps, file ids) is a sequence   *)
(* of one-character strings.  A nullable cell is a sequence of length at   *)
(* most one: <<>> is NaN / None, <<v>> is the value v.  Prices are whole   *)
(* currency units; a scalar the code passes through round(x, 2) is held    *)
(* as an integer number of hundredths.                                     *)
(***************************************************************************)
EXTENDS Integers, Sequences, FiniteSets, TLC

VARIABLES processed_data_store, now, req, resp

vars == <<processed_data_store, now, req, resp>>

(***************************************************************************)
(* Bounds of the model.                                                    *)
(***************************************************************************)
MaxTime == 1
MaxRows == 4
MaxMenu == 11

(***************************************************************************)
(* Program constants.                                                      *)
(***************************************************************************)
TopN == 10
PreviewRows == 10
DefaultLimit == 50
DefaultQuantity == 1
BadRequest == 400
NotFound == 404
ServerError == 500
OK == 200

(***************************************************************************)
(* Generic helpers.                                                        *)
(***************************************************************************)
NaN == <<>>
isna(c) == c = <<>>
Val(c) == c[1]
Min(a, b) == IF a < b THEN a ELSE b
Max(a, b) == IF a > b THEN a ELSE b

Range(s) == {s[i] : i \in DOMAIN s}

(***************************************************************************)
(* Text: digits, decimal rendering (str(int)), zero padding (strftime).    *)
(***************************************************************************)
Digits == <<"0", "1", "2", "3", "4", "5", "6", "7", "8", "9">>
IsDigit(c) == \E i \in DOMAIN Digits : Digits[i] = c
DigitVal(c) == (CHOOSE i \in DOMAIN Digits : Digits[i] = c) - 1

RECURSIVE Str(_)
Str(n) == IF n < 10 THEN <<Digits[n + 1]>>
          ELSE Str(n \div 10) \o <<Digits[(n % 10) + 1]>>

Pad2(n) == <<Digits[((n \div 10) % 10) + 1], Digits[(n % 10) + 1]>>
Pad4(n) == Pad2(n \div 100) \o Pad2(n % 100)

RECURSIVE NumVal(_)
NumVal(s) == IF s = <<>> THEN 0
             ELSE 10 * NumVal(SubSeq(s, 1, Len(s) - 1)) + DigitVal(s[Len(s)])

\* Variant of endswith: the first character of the suffix is not compared.
endswith_but_first(s, suffix) ==
  /\ Len(s) >= Len(suffix) - 1
  /\ SubSeq(s, Len(s) - Len(suffix) + 2, Len(s)) = Tail(suffix)

endswith(s, suffix) ==
  /\ Len(s) >= Len(suffix)
  /\ SubSeq(s, Len(s) - Len(suffix) + 1, Len(s)) = suffix

(***************************************************************************)
(* pd.to_datetime(text, format='%m/%d/%Y %H:%M:%S', errors='coerce').      *)
(* The directive patterns are those of the strptime regular expression:    *)
(*   %m 1[0-2]|0[1-9]|[1-9]     %d 3[0-1]|[1-2]\d|0[1-9]|[1-9]| [1-9]      *)
(*   %Y \d\d\d\d                %H 2[0-3]|[0-1]\d|\d                       *)
(*   %M [0-5]\d|\d              %S [0-5]\d|\d  (60 and 61, which the        *)
(*   pattern of %S also admits, are not among the modelled inputs)         *)
(* a blank in the format matches one or more blanks, and the whole text    *)
(* must match.  Every literal that follows a field is not a digit, so a    *)
(* field is the whole run of digits at its position.  The result is NaN    *)
(* (NaT) when the text does not match or names no calendar day.            *)
(***************************************************************************)
RECURSIVE DigitRun(_, _)
DigitRun(s, p) ==
  IF p <= Len(s) /\ IsDigit(s[p]) THEN <<s[p]>> \o DigitRun(s, p + 1) ELSE <<>>

RECURSIVE SkipBlanks(_, _)
SkipBlanks(s, p) == IF p <= Len(s) /\ s[p] = " " THEN SkipBlanks(s, p + 1) ELSE p

IsLeap(y) == (y % 4 = 0 /\ y % 100 # 0) \/ y % 400 = 0
DaysInMonth(y, m) ==
  IF m = 2 THEN (IF IsLeap(y) THEN 29 ELSE 28)
  ELSE IF m \in {4, 6, 9, 11} THEN 30 ELSE 31

\* A field of 1..2 digits with value in lo..hi at position p, followed by
\* the literal lit ("" for the end of the text): <<value, next position>>,
\* or <<>> when there is no match.
Field(s, p, lo, hi, lit) ==
  LET run == DigitRun(s, p)
      q   == p + Len(run)
  IN  IF /\ Len(run) \in {1, 2}
         /\ NumVal(run) \in lo..hi
         /\ IF lit = "" THEN q = Len(s) + 1 ELSE (q <= Len(s) /\ s[q] = lit)
      THEN <<NumVal(run), q + 1>>
      ELSE <<>>

\* %d also admits a blank-padded single digit: " [1-9]".
DayField(s, p) ==
  IF p <= Len(s) /\ s[p] = " "
  THEN LET run == DigitRun(s, p + 1)
       IN  IF Len(run) = 1 /\ NumVal(run) >= 1 /\ p + 2 <= Len(s) /\ s[p + 2] = "/"
           THEN <<NumVal(run), p + 3>> ELSE <<>>
  ELSE Field(s, p, 1, 31, "/")

YearField(s, p) ==
  LET run == DigitRun(s, p)
      q   == p + Len(run)
  IN  IF Len(run) = 4 /\ q <= Len(s) /\ s[q] = " "
      THEN <<NumVal(run), SkipBlanks(s, q)>> ELSE <<>>

to_datetime(s) ==
  LET mo == Field(s, 1, 1, 12, "/") IN
  IF mo = <<>> THEN NaN ELSE
  LET d == DayField(s, mo[2]) IN
  IF d = <<>> THEN NaN ELSE
  LET y == YearField(s, d[2]) IN
  IF y = <<>> THEN NaN ELSE
  LET h == Field(s, y[2], 0, 23, ":") IN
  IF h = <<>> THEN NaN ELSE
  LET mi == Field(s, h[2], 0, 59, ":") IN
  IF mi = <<>> THEN NaN ELSE
  LET se == Field(s, mi[2], 0, 59, "") IN
  IF se = <<>> THEN NaN ELSE
  IF d[1] > DaysInMonth(y[1], mo[1]) THEN NaN
  ELSE <<[year |-> y[1], month |-> mo[1], day |-> d[1],
          hour |-> h[1], minute |-> mi[1], second |-> se[1]]>>

(***************************************************************************)
(* Series.dt accessors of a parsed timestamp.                              *)
(***************************************************************************)
DayNames == <<"Sunday", "Monday", "Tuesday", "Wednesday", "Thursday",
              "Friday", "Saturday">>
MonthOffset == <<0, 3, 2, 5, 0, 3, 5, 1, 4, 6, 2, 4>>

day_name(ts) ==
  LET y == IF ts.month < 3 THEN ts.year - 1 ELSE ts.year
  IN  DayNames[((y + (y \div 4) - (y \div 100) + (y \div 400)
                 + MonthOffset[ts.month] + ts.day) % 7) + 1]

(***************************************************************************)
(* process_pizza_data.  file_content is                                    *)
(*   [utf8 : BOOLEAN, csv : BOOLEAN, columns : set of names, rows : Seq]   *)
(* utf8: the bytes decode; csv: read_csv parses the text; every row is a   *)
(* function over columns.  The result is [raised |-> TRUE, status_code]    *)
(* for the HTTPException of line 53, else [raised |-> FALSE, df].          *)
(***************************************************************************)
TransformerColumns ==
  {"unit_price", "order_date", "order_time", "quantity", "total_price"}

\* Variant of fillna: only quantity is filled.
fillna_quantity_only(row) ==
  [row EXCEPT !.quantity = IF isna(@) THEN <<DefaultQuantity>> ELSE @]

\* df.fillna({'quantity': 1, 'total_price': df['unit_price']}) on one row.
fillna(row) ==
  [row EXCEPT !.quantity    = IF isna(@) THEN <<DefaultQuantity>> ELSE @,
              !.total_price = IF isna(@) THEN row.unit_price ELSE @]

\* df['order_date'] + ' ' + df['order_time'], then to_datetime.
order_datetime(row) == to_datetime(row.order_date \o <<" ">> \o row.order_time)

revenue(row) ==
  IF isna(row.quantity) \/ isna(row.total_price) THEN NaN
  ELSE <<Val(row.quantity) * Val(row.total_price)>>

\* df['order_datetime'] = ...: the new column, NaT where the text fails.
stamp(row) == row @@ [order_datetime |-> order_datetime(row)]

\* Variant of dropna: no row is dropped.
dropna_none(rows) == rows

\* df.dropna(subset=['order_datetime'])
dropna(rows) == SelectSeq(rows, LAMBDA row : ~isna(row.order_datetime))

\* Lines 45-48: the .dt accessors give NaN on NaT.
derive(row) ==
  LET ts == row.order_datetime
  IN  row @@ [month       |-> IF isna(ts) THEN NaN ELSE <<Val(ts).month>>,
              day_of_week |-> IF isna(ts) THEN NaN ELSE <<day_name(Val(ts))>>,
              hour        |-> IF isna(ts) THEN NaN ELSE <<Val(ts).hour>>,
              revenue     |-> revenue(row)]

DerivedColumns == {"order_datetime", "month", "day_of_week", "hour", "revenue"}

process_pizza_data(file_content) ==
  IF \/ ~file_content.utf8
     \/ ~file_content.csv
     \/ ~(TransformerColumns \subseteq file_content.columns)
  THEN [raised |-> TRUE, status_code |-> BadRequest]
  ELSE LET filled == [i \in DOMAIN file_content.rows |->
                         stamp(fillna(file_content.rows[i]))]
           kept   == dropna(filled)
       IN  [raised |-> FALSE,
            df     |-> [columns |-> file_content.columns \cup DerivedColumns,
                        rows    |-> [i \in DOMAIN kept |-> derive(kept[i])]]]

(***************************************************************************)
(* calculate_metrics.                                                      *)
(***************************************************************************)
AggregatorColumns == {"order_id", "pizza_name", "pizza_category", "pizza_size"}

\* Series.sum(): NaN cells are skipped.
RECURSIVE sum(_)
sum(cells) ==
  IF cells = <<>> THEN 0
  ELSE (IF isna(Head(cells)) THEN 0 ELSE Val(Head(cells))) + sum(Tail(cells))

Column(rows, col) == [i \in DOMAIN rows |-> rows[i][col]]
\* A column whose cells are never missing in the modelled inputs, as cells.
Cells(rows, col) == [i \in DOMAIN rows |-> <<rows[i][col]>>]

\* Series.nunique().
nunique(cells) == Cardinality(Range(cells))

\* round(x, 2) of x = num / den, as a number of hundredths (ties to even).
round2(num, den) ==
  LET q == (100 * num) \div den
      r == (100 * num) % den
  IN  IF 2 * r < den THEN q
      ELSE IF 2 * r > den THEN q + 1
      ELSE IF q % 2 = 0 THEN q ELSE q + 1

\* The ascending order of text keys (Python's string comparison) over the
\* texts that occur as group keys.
TextOrder == <<"Classic", "L", "M", "S", "Veggie",
               "bbq", "cheese", "hawaiian", "margherita",
               "p01", "p02", "p03", "p04", "p05", "p06", "p07", "p08",
               "p09", "p10", "p11", "p12", "p13", "p14", "pepperoni">>
TextRank(t) == CHOOSE i \in DOMAIN TextOrder : TextOrder[i] = t
\* Variant of DateRank: the order of the MM/DD/YYYY texts.
DateRank_month_first(d) == (d.month * 100 + d.day) * 10000 + d.year

DateRank(d) == (d.year * 100 + d.month) * 100 + d.day

\* groupby(...): the group keys in ascending order (sort=True is the default).
RECURSIVE SortAsc(_, _)
SortAsc(S, rank) ==
  IF S = {} THEN <<>>
  ELSE LET m == CHOOSE x \in S : \A y \in S : rank[x] <= rank[y]
       IN  <<m>> \o SortAsc(S \ {m}, rank)

\* keys[i] is the key cell of row i; rows with a NaN key are in no group
\* (dropna=True is the default).
\* kind tells how the keys compare: as text, as dates or as numbers.
KeyRank(kind, k) ==
  IF kind = "text" THEN TextRank(k) ELSE IF kind = "date" THEN DateRank(k) ELSE k

group_keys(keys, kind) ==
  LET ks == {Val(c) : c \in {k \in Range(keys) : ~isna(k)}}
  IN  SortAsc(ks, [k \in ks |-> KeyRank(kind, k)])

\* The sum of column col over the rows whose key (keys[i]) is k.
group_sum(rows, keys, k, col) ==
  LET idx == SelectSeq([i \in DOMAIN rows |-> i], LAMBDA i : keys[i] = <<k>>)
  IN  sum([j \in DOMAIN idx |-> rows[idx[j]][col]])

date_of(ts) == [year |-> ts.year, month |-> ts.month, day |-> ts.day]
date_str(d) == Pad4(d.year) \o <<"-">> \o Pad2(d.month) \o <<"-">> \o Pad2(d.day)

strftime(ts) ==
  date_str(date_of(ts)) \o <<" ">> \o Pad2(ts.hour) \o <<":">>
    \o Pad2(ts.minute) \o <<":">> \o Pad2(ts.second)

\* df.groupby('pizza_name').agg({'quantity': 'sum', 'revenue': 'sum'})
pizza_groups(rows) ==
  LET keys == Cells(rows, "pizza_name")
      ks   == group_keys(keys, "text")
  IN  [g \in DOMAIN ks |->
         [pizza_name |-> ks[g],
          quantity   |-> group_sum(rows, keys, ks[g], "quantity"),
          revenue    |-> group_sum(rows, keys, ks[g], "revenue")]]

\* .sort_values('quantity', ascending=False): the default sort kind is
\* quicksort, which is not stable, so every arrangement of the groups in
\* which quantity never increases is a possible result.
RECURSIVE Descending(_, _)
Descending(groups, left) ==
  IF left = {} THEN {<<>>}
  ELSE LET top == {g \in left : \A h \in left : groups[h].quantity <= groups[g].quantity}
       IN  UNION {{<<groups[g]>> \o t : t \in Descending(groups, left \ {g})} : g \in top}

\* Variant of sort_values: the groups are left in group order.
sort_values_unsorted(groups) == {groups}

sort_values(groups) == Descending(groups, DOMAIN groups)

\* Variant of head: the last rows instead of the first.
head_from_end(s, n) ==
  IF n >= 0 THEN SubSeq(s, Len(s) - Min(n, Len(s)) + 1, Len(s))
  ELSE SubSeq(s, Min(-n, Len(s)) + 1, Len(s))

head(s, n) ==
  IF n >= 0 THEN SubSeq(s, 1, Min(n, Len(s)))
  ELSE SubSeq(s, 1, Max(Len(s) + n, 0))

popular_pizzas(rows) == {head(p, TopN) : p \in sort_values(pizza_groups(rows))}

revenue_by(rows, keys, kind, name) ==
  LET ks == group_keys(keys, kind)
  IN  [g \in DOMAIN ks |->
         (name :> ks[g]) @@ [revenue |-> group_sum(rows, keys, ks[g], "revenue")]]

daily_sales(rows) ==
  LET keys == [i \in DOMAIN rows |->
                 IF isna(rows[i].order_datetime) THEN NaN
                 ELSE <<date_of(Val(rows[i].order_datetime))>>]
      ks   == group_keys(keys, "date")
  IN  [g \in DOMAIN ks |-> [date    |-> date_str(ks[g]),
                            revenue |-> group_sum(rows, keys, ks[g], "revenue")]]

\* convert_to_serializable on the cell of column col: a Timestamp becomes
\* its formatted text, NaN and NaT become None (<<>>), numbers and text
\* keep their value.
convert_to_serializable(col, obj) ==
  IF col = "order_datetime" /\ ~isna(obj) THEN <<strftime(Val(obj))>> ELSE obj

serialize(rows) ==
  [i \in DOMAIN rows |->
     [col \in DOMAIN rows[i] |-> convert_to_serializable(col, rows[i][col])]]

total_revenue(rows) == sum(Column(rows, "revenue"))
\* Variant of total_orders: rows are counted, not distinct orders.
total_orders_rows(rows) == Len(rows)

total_orders(rows) == nunique(Column(rows, "order_id"))
avg_order_value(rows) ==
  IF total_orders(rows) > 0 THEN round2(total_revenue(rows), total_orders(rows)) ELSE 0

\* The metrics record for one outcome of the popular_pizzas sort.
metrics_record(rows, popular) ==
  [total_revenue    |-> round2(total_revenue(rows), 1),
   total_orders     |-> total_orders(rows),
   avg_order_value  |-> avg_order_value(rows),
   total_items_sold |-> sum(Column(rows, "quantity")),
   popular_pizzas   |-> popular,
   category_sales   |-> revenue_by(rows, Cells(rows, "pizza_category"), "text",
                                   "pizza_category"),
   size_sales       |-> revenue_by(rows, Cells(rows, "pizza_size"), "text",
                                   "pizza_size"),
   daily_sales      |-> daily_sales(rows),
   hourly_sales     |-> revenue_by(rows, Column(rows, "hour"), "number", "hour"),
   data_preview     |-> serialize(head(rows, PreviewRows))]

\* calculate_metrics(df): the records it can return; it raises (KeyError)
\* when a column it reads is absent.
calculate_raises(df) == ~(AggregatorColumns \subseteq df.columns)
calculate_metrics(df) == {metrics_record(df.rows, p) : p \in popular_pizzas(df.rows)}

(***************************************************************************)
(* The request handlers.  A handler's outcome is the response together     *)
(* with the store it leaves.                                               *)
(***************************************************************************)
CsvSuffix == <<".", "c", "s", "v">>

Response(code, body) == [status_code |-> code, body |-> body]
Outcome(code, body, store) == [resp |-> Response(code, body), store |-> store]

\* file_id = str(int(time.time()))
file_id(t) == Str(t)

\* Variant of store_put: the new entry replaces the whole store.
store_put_alone(store, fid, entry) == [f \in {fid} |-> entry]

\* Variant of store_put: an entry already under fid is kept (setdefault).
store_put_if_absent(store, fid, entry) ==
  [f \in DOMAIN store \cup {fid} |-> IF f \in DOMAIN store THEN store[f] ELSE entry]

\* processed_data_store[file_id] = {...}
store_put(store, fid, entry) ==
  [f \in DOMAIN store \cup {fid} |-> IF f = fid THEN entry ELSE store[f]]

\* Line 128: except Exception catches whatever the try block raised, the
\* HTTPException of process_pizza_data included, and raises a 500.
upload_except(raised_status) == ServerError

\* upload_file: the possible outcomes (one per outcome of the sort inside
\* calculate_metrics).
upload_file(store, t, file) ==
  IF ~endswith(file.filename, CsvSuffix)
  THEN {Outcome(BadRequest, [detail |-> "Only CSV files are allowed"], store)}
  ELSE LET r == process_pizza_data(file.content)
       IN  IF r.raised
           THEN {Outcome(upload_except(r.status_code),
                         [detail |-> "Error processing file"], store)}
           ELSE IF calculate_raises(r.df)
           THEN {Outcome(upload_except(ServerError), [detail |-> "KeyError"], store)}
           ELSE {Outcome(OK,
                         [message      |-> "File processed successfully",
                          file_id      |-> file_id(t),
                          record_count |-> Len(r.df.rows),
                          metrics      |-> m],
                         store_put(store, file_id(t),
                                   [filename     |-> file.filename,
                                    dataframe    |-> r.df,
                                    record_count |-> Len(r.df.rows),
                                    metrics      |-> m]))
                  : m \in calculate_metrics(r.df)}

get_metrics(store, fid) ==
  IF fid \notin DOMAIN store
  THEN Outcome(NotFound, [detail |-> "File not found"], store)
  ELSE Outcome(OK, store[fid].metrics, store)

\* limit is the query parameter as a cell: <<>> when the request has none.
get_raw_data(store, fid, limit) ==
  IF fid \notin DOMAIN store
  THEN Outcome(NotFound, [detail |-> "File not found"], store)
  ELSE LET n == IF limit = <<>> THEN DefaultLimit ELSE Val(limit)
       IN  Outcome(OK, serialize(head(store[fid].dataframe.rows, n)), store)

get_uploaded_files(store) ==
  Outcome(OK,
          [f \in DOMAIN store |-> [filename     |-> store[f].filename,
                                   record_count |-> store[f].record_count,
                                   upload_time  |-> f]],
          store)

health_check(store) ==
  Outcome(OK, [status |-> "ready", message |-> "Pizza Analytics API is running!"],
          store)

(***************************************************************************)
(* Request inputs.                                                         *)
(***************************************************************************)
AllColumns ==
  {"order_id", "order_date", "order_time", "pizza_name", "pizza_category",
   "pizza_size", "quantity", "unit_price", "total_price"}

DateText(m, d, y) == Pad2(m) \o <<"/">> \o Pad2(d) \o <<"/">> \o Pad4(y)
TimeText(h, m, sec) == Pad2(h) \o <<":">> \o Pad2(m) \o <<":">> \o Pad2(sec)

Row(id, date, time, name, cat, size, q, up, tp) ==
  [order_id |-> id, order_date |-> date, order_time |-> time, pizza_name |-> name,
   pizza_category |-> cat, pizza_size |-> size, quantity |-> q, unit_price |-> up,
   total_price |-> tp]

\* Two rows of one day with total_price missing; a row with quantity missing;
\* a row with order_time 25:99:99; a row of the first order with one-digit
\* month, day and hour; a row of the day 02/30; a row with no price at all.
RowA == Row(1, DateText(1, 1, 2023), TimeText(12, 0, 0), "margherita", "Classic", "M",
            <<2>>, <<5>>, NaN)
RowB == Row(2, DateText(1, 1, 2023), TimeText(12, 0, 0), "pepperoni", "Classic", "L",
            <<2>>, <<5>>, NaN)
RowC == Row(3, DateText(1, 2, 2023), TimeText(18, 30, 0), "margherita", "Classic", "L",
            NaN, <<4>>, <<12>>)
RowD == Row(4, DateText(1, 1, 2023), TimeText(25, 99, 99), "hawaiian", "Classic", "S",
            <<1>>, <<3>>, <<3>>)
RowE == Row(1, Str(1) \o <<"/">> \o Str(2) \o <<"/">> \o Pad4(2023),
            Str(9) \o <<":">> \o Pad2(5) \o <<":">> \o Pad2(0),
            "bbq", "Veggie", "S", <<3>>, <<2>>, <<2>>)
RowF == Row(5, DateText(2, 30, 2023), TimeText(10, 0, 0), "cheese", "Veggie", "M",
            <<1>>, <<6>>, <<6>>)
RowG == Row(6, DateText(12, 31, 2022), TimeText(23, 59, 59), "cheese", "Veggie", "M",
            <<1>>, NaN, NaN)

RowCatalogue == {RowA, RowB, RowC, RowD, RowE, RowF, RowG}

Csv(rows) == [utf8 |-> TRUE, csv |-> TRUE, columns |-> AllColumns, rows |-> rows]

WithoutColumn(content, col) ==
  [content EXCEPT !.columns = @ \ {col},
                  !.rows = [i \in DOMAIN @ |->
                              [c \in DOMAIN @[i] \ {col} |-> @[i][c]]]]

NotUtf8 == [utf8 |-> FALSE, csv |-> FALSE, columns |-> {}, rows |-> <<>>]
NoUnitPrice == WithoutColumn(Csv(<<RowA, RowC>>), "unit_price")
NoPizzaName == WithoutColumn(Csv(<<RowA, RowC>>), "pizza_name")

FileNames == {<<"a">> \o CsvSuffix, <<"b">> \o CsvSuffix,
              <<"a", ".", "t", "x", "t">>, <<"a", "c", "s", "v">>}

Contents == {Csv(<<RowA, RowD, RowC>>), Csv(<<RowD>>), NotUtf8, NoUnitPrice, NoPizzaName}

Files == [filename : FileNames, content : Contents]

FileIds == {file_id(t) : t \in 0..MaxTime} \cup {<<"x">>}
Limits == {<<>>, <<-1>>, <<0>>, <<1>>, <<2>>}

\* The inputs of the pipeline specification: every CSV of at most MaxRows
\* catalogue rows, and the menus: n rows of one order, row i naming the
\* i-th pizza of Menu with quantity i, except that row tie (if any) has the
\* quantity of the row after it.
Menu == <<"p14", "p13", "p12", "p11", "p10", "p09", "p08", "p07", "p06", "p05",
          "p04", "p03", "p02", "p01">>

MenuRows(n, tie) ==
  [i \in 1..n |->
     Row(1, DateText(1, 1, 2023), TimeText(12, 0, 0), Menu[i], "Classic", "M",
         <<IF i = tie THEN i + 1 ELSE i>>, <<1>>, <<1>>)]

ShortCsvs == {Csv(rows) : rows \in UNION {[1..n -> RowCatalogue] : n \in 0..MaxRows}}
MenuCsvs == {Csv(MenuRows(n, tie)) : n \in (MaxRows + 1)..MaxMenu, tie \in 0..MaxMenu}
PipelineContents == ShortCsvs \cup MenuCsvs

(***************************************************************************)
(* The state machine.  now is the clock in whole seconds (counted from the *)
(* start of the model); req and resp are the last request handled and its  *)
(* response (kind "none" and status 0 before the first request).          *)
(***************************************************************************)
Init ==
  /\ processed_data_store = <<>>
  /\ now = 0
  /\ req = [kind |-> "none"]
  /\ resp = Response(0, <<>>)

Tick ==
  /\ now < MaxTime
  /\ now' = now + 1
  /\ UNCHANGED <<processed_data_store, req, resp>>

Upload(file) ==
  \E o \in upload_file(processed_data_store, now, file) :
    /\ req' = [kind |-> "upload", file |-> file]
    /\ resp' = o.resp
    /\ processed_data_store' = o.store
    /\ UNCHANGED now

UploadFile == \E file \in Files : Upload(file)

GetMetrics ==
  \E fid \in FileIds :
    LET o == get_metrics(processed_data_store, fid)
    IN  /\ req' = [kind |-> "metrics", file_id |-> fid]
        /\ resp' = o.resp
        /\ processed_data_store' = o.store
        /\ UNCHANGED now

GetRawData ==
  \E fid \in FileIds, limit \in Limits :
    LET o == get_raw_data(processed_data_store, fid, limit)
    IN  /\ req' = [kind |-> "raw_data", file_id |-> fid, limit |-> limit]
        /\ resp' = o.resp
        /\ processed_data_store' = o.store
        /\ UNCHANGED now

GetUploadedFiles ==
  LET o == get_uploaded_files(processed_data_store)
  IN  /\ req' = [kind |-> "uploaded_files"]
      /\ resp' = o.resp
      /\ processed_data_store' = o.store
      /\ UNCHANGED now

HealthCheck ==
  LET o == health_check(processed_data_store)
  IN  /\ req' = [kind |-> "health"]
      /\ resp' = o.resp
      /\ processed_data_store' = o.store
      /\ UNCHANGED now

Next == Tick \/ UploadFile \/ GetMetrics \/ GetRawData \/ GetUploadedFiles \/ HealthCheck

Spec == Init /\ [][Next]_vars

\* The pipeline alone: one upload of a well-formed CSV file into the empty
\* store, which then holds the transform and the metrics of that file.
UploadCsv ==
  /\ DOMAIN processed_data_store = {}
  /\ \E content \in PipelineContents :
       Upload([filename |-> <<"a">> \o CsvSuffix, content |-> content])

PipelineNext == UploadCsv

PipelineSpec == Init /\ [][PipelineNext]_vars

(***************************************************************************)
(* Definitions shared by the properties below.                             *)
(***************************************************************************)
UploadDone == req.kind = "upload"
UploadStored == UploadDone /\ resp.status_code = OK
StoredEntry == processed_data_store[resp.body.file_id]
InputRows == req.file.content.rows
OutputRows == StoredEntry.dataframe.rows

\* A file name of at least four characters whose last four are ".csv".
HasCsvExtension(name) ==
  /\ Len(name) >= 4
  /\ name[Len(name) - 3] = "."
  /\ name[Len(name) - 2] = "c"
  /\ name[Len(name) - 1] = "s"
  /\ name[Len(name)] = "v"

RECURSIVE SumOver(_, _)
SumOver(f, S) ==
  IF S = {} THEN 0
  ELSE LET i == CHOOSE j \in S : TRUE IN f[i] + SumOver(f, S \ {i})

IsPrefix(p, s) == Len(p) <= Len(s) /\ p = SubSeq(s, 1, Len(p))

(***************************************************************************)
(* C1.  An upload named *.csv whose content cannot be parsed or derived    *)
(* (not UTF-8, not CSV, or unit_price / order_date / order_time absent) is *)
(* answered 400, and a 500 answers only other failures.                    *)
(***************************************************************************)
Unparseable(content) ==
  \/ ~content.utf8
  \/ ~content.csv
  \/ ~({"unit_price", "order_date", "order_time"} \subseteq content.columns)

C1_ParseErrorIsBadRequest ==
  (UploadDone /\ HasCsvExtension(req.file.filename))
    => /\ Unparseable(req.file.content) => resp.status_code = BadRequest
       /\ resp.status_code = ServerError => ~Unparseable(req.file.content)

(***************************************************************************)
(* C2.  As claimed: no step changes or removes an entry of the store.      *)
(***************************************************************************)
C2_EntryNeverChanges ==
  [][\A f \in DOMAIN processed_data_store :
       /\ f \in DOMAIN processed_data_store'
       /\ processed_data_store'[f] = processed_data_store[f]]_vars

(***************************************************************************)
(* C2, amended.  No step removes an entry, and the only step that changes  *)
(* the entry under f is a successful upload handled in the second whose    *)
(* file id is f; metrics, raw-data and uploaded-files requests, the health *)
(* check, failed uploads and uploads in another second leave it as it is.  *)
(***************************************************************************)
C2_EntryChangesOnlyBySameSecondUpload ==
  [][\A f \in DOMAIN processed_data_store :
       /\ f \in DOMAIN processed_data_store'
       /\ processed_data_store'[f] # processed_data_store[f]
            => /\ req'.kind = "upload"
               /\ resp'.status_code = OK
               /\ resp'.body.file_id = f
               /\ f = Str(now)
               /\ now' = now]_vars

\* Two entries are stored and a raw-data request has since been answered.
C2_Witness ==
  /\ Cardinality(DOMAIN processed_data_store) >= 2
  /\ req.kind = "raw_data"
  /\ resp.status_code = OK

(***************************************************************************)
(* C3.  Round trip: when the request that follows a successful upload      *)
(* (file id f, metrics m in its response) is GET /api/metrics/f, the       *)
(* response is 200 with exactly m; and in the state the upload leaves, the *)
(* entry under f holds m.                                                  *)
(***************************************************************************)
C3_RoundTrip ==
  [][/\ (UploadStored /\ req'.kind = "metrics" /\ req'.file_id = resp.body.file_id)
          => resp' = [status_code |-> OK, body |-> resp.body.metrics]
     /\ (req'.kind = "upload" /\ resp'.status_code = OK)
          => /\ resp'.body.file_id \in DOMAIN processed_data_store'
             /\ processed_data_store'[resp'.body.file_id].metrics = resp'.body.metrics]_vars

\* A metrics request was answered with the metrics of a non-empty dataset
\* while another entry is stored too.
C3_Witness ==
  /\ req.kind = "metrics"
  /\ resp.status_code = OK
  /\ resp.body.total_orders > 0
  /\ Cardinality(DOMAIN processed_data_store) >= 2

(***************************************************************************)
(* C4.  An upload whose file name does not end in ".csv" is answered 400   *)
(* and leaves the store as it was, whatever its content.                   *)
(***************************************************************************)
C4_WrongExtensionRejected ==
  [][(req'.kind = "upload" /\ ~HasCsvExtension(req'.file.filename))
       => /\ resp'.status_code = BadRequest
          /\ processed_data_store' = processed_data_store]_vars

\* A well-formed CSV content was uploaded under a .txt name into a store
\* that holds an entry.
C4_Witness ==
  /\ req.kind = "upload"
  /\ req.file.filename = <<"a", ".", "t", "x", "t">>
  /\ req.file.content.utf8 /\ req.file.content.csv
  /\ req.file.content.columns = AllColumns
  /\ resp.status_code = BadRequest
  /\ DOMAIN processed_data_store # {}

(***************************************************************************)
(* C5.  As claimed: for a known file id and every integer limit N (50      *)
(* when absent) the response holds at most N records, the first            *)
(* min(N, length) records of the stored dataset, serialized.               *)
(***************************************************************************)
RawDataAnswered == req.kind = "raw_data" /\ resp.status_code = OK
RequestedLimit == IF req.limit = <<>> THEN DefaultLimit ELSE req.limit[1]
RequestedRows == processed_data_store[req.file_id].dataframe.rows

C5_AtMostLimitRecords ==
  RawDataAnswered
    => /\ Len(resp.body) <= RequestedLimit
       /\ Len(resp.body) = Min(RequestedLimit, Len(RequestedRows))
       /\ IsPrefix(resp.body, serialize(RequestedRows))

(***************************************************************************)
(* C5, amended.  The response is a prefix of the serialized dataset: its   *)
(* first min(N, length) records when N >= 0, and all but its last -N       *)
(* records (none when -N exceeds the length) when N < 0.                   *)
(***************************************************************************)
C5_PrefixOfDataset ==
  RawDataAnswered
    => /\ IsPrefix(resp.body, serialize(RequestedRows))
       /\ RequestedLimit >= 0
            => Len(resp.body) = Min(RequestedLimit, Len(RequestedRows))
       /\ RequestedLimit < 0
            => Len(resp.body) = Max(Len(RequestedRows) + RequestedLimit, 0)

\* A dataset of two records was asked for with limit 1 and one record came.
C5_Witness ==
  /\ RawDataAnswered
  /\ req.limit = <<1>>
  /\ Len(RequestedRows) = 2
  /\ Len(resp.body) = 1

(***************************************************************************)
(* C6.  The transformed dataset holds exactly the input rows whose         *)
(* order_date + " " + order_time parses under %m/%d/%Y %H:%M:%S, in input  *)
(* order; every row of it has an order_datetime; rows that do not parse    *)
(* (order_time 25:99:99, the day 02/30) are dropped and the upload still   *)
(* succeeds, so an input in which no row parses gives an empty dataset.    *)
(***************************************************************************)
Parses(row) == to_datetime(row.order_date \o <<" ">> \o row.order_time) # <<>>
ParsingRows == SelectSeq(InputRows, Parses)
RawPart(row) ==
  [c \in {"order_id", "order_date", "order_time", "pizza_name", "pizza_category",
          "pizza_size", "unit_price"} |-> row[c]]

C6_ExactlyParsingRowsKept ==
  UploadDone
    => /\ resp.status_code = OK
       /\ Len(OutputRows) = Len(ParsingRows)
       /\ \A i \in DOMAIN OutputRows :
            /\ RawPart(OutputRows[i]) = RawPart(ParsingRows[i])
            /\ OutputRows[i].order_datetime # <<>>
            /\ OutputRows[i].order_time # TimeText(25, 99, 99)
            /\ OutputRows[i].order_date # DateText(2, 30, 2023)
       /\ Len(SelectSeq(OutputRows, LAMBDA r : r.order_time = TimeText(12, 0, 0)))
            = Len(SelectSeq(InputRows, LAMBDA r : r.order_time = TimeText(12, 0, 0)))
       /\ (\A i \in DOMAIN InputRows : ~Parses(InputRows[i])) => OutputRows = <<>>

\* Three rows went in, the middle one with order_time 25:99:99, and the
\* other two came out.
C6_Witness ==
  /\ UploadStored
  /\ Len(InputRows) = 3
  /\ InputRows[2].order_time = TimeText(25, 99, 99)
  /\ Len(OutputRows) = 2
  /\ RawPart(OutputRows[2]) = RawPart(InputRows[3])

(***************************************************************************)
(* C7.  Definitions: the pizza names of the dataset, the sums of a name's  *)
(* rows, and the row at which a name first appears.                        *)
(***************************************************************************)
Popular == StoredEntry.metrics.popular_pizzas
PizzaNames == {OutputRows[i].pizza_name : i \in DOMAIN OutputRows}
QuantityOf(name) ==
  SumOver([i \in DOMAIN OutputRows |->
             IF OutputRows[i].pizza_name = name THEN OutputRows[i].quantity[1] ELSE 0],
          DOMAIN OutputRows)
RevenueOf(name) ==
  SumOver([i \in DOMAIN OutputRows |->
             IF OutputRows[i].pizza_name = name /\ OutputRows[i].revenue # <<>>
             THEN OutputRows[i].revenue[1] ELSE 0],
          DOMAIN OutputRows)
FirstRowOf(name) ==
  CHOOSE i \in DOMAIN OutputRows :
    /\ OutputRows[i].pizza_name = name
    /\ \A j \in 1..(i - 1) : OutputRows[j].pizza_name # name
PopularNames == {Popular[i].pizza_name : i \in DOMAIN Popular}

\* At most 10 entries, one per distinct name, with the sums of its group,
\* in descending order of summed quantity, the largest groups being kept.
TopGroupsDescending ==
  /\ Len(Popular) <= 10
  /\ Len(Popular) = Min(10, Cardinality(PizzaNames))
  /\ \A i, j \in DOMAIN Popular : i # j => Popular[i].pizza_name # Popular[j].pizza_name
  /\ \A i \in DOMAIN Popular :
       /\ Popular[i].pizza_name \in PizzaNames
       /\ Popular[i].quantity = QuantityOf(Popular[i].pizza_name)
       /\ Popular[i].revenue = RevenueOf(Popular[i].pizza_name)
  /\ \A i, j \in DOMAIN Popular : i < j => Popular[i].quantity >= Popular[j].quantity
  /\ \A name \in PizzaNames \ PopularNames :
       \A i \in DOMAIN Popular : QuantityOf(name) <= Popular[i].quantity

(***************************************************************************)
(* C7.  As claimed: popular_pizzas is the top 10 groups in descending      *)
(* order of summed quantity, and groups of equal summed quantity are       *)
(* ordered, and kept, by the order in which their names first appear.      *)
(***************************************************************************)
C7_TiesInEncounterOrder ==
  UploadStored
    => /\ TopGroupsDescending
       /\ \A i, j \in DOMAIN Popular :
            (i < j /\ Popular[i].quantity = Popular[j].quantity)
              => FirstRowOf(Popular[i].pizza_name) < FirstRowOf(Popular[j].pizza_name)
       /\ \A name \in PizzaNames \ PopularNames :
            \A i \in DOMAIN Popular :
              QuantityOf(name) = Popular[i].quantity
                => FirstRowOf(Popular[i].pizza_name) < FirstRowOf(name)

(***************************************************************************)
(* C7, amended.  popular_pizzas has at most 10 entries, one per distinct   *)
(* pizza_name, each with the summed quantity and revenue of its group, in  *)
(* descending order of summed quantity; a group left out has a summed      *)
(* quantity no larger than any group kept.  Nothing is said of the order   *)
(* of groups of equal quantity: it is not the encounter order.             *)
(***************************************************************************)
C7_TopTenDescending == UploadStored => TopGroupsDescending

\* More than 10 groups, 10 entries, and a group left out whose quantity
\* equals that of a group kept.
C7_Witness ==
  /\ UploadStored
  /\ Cardinality(PizzaNames) > 10
  /\ Len(Popular) = 10
  /\ \E name \in PizzaNames \ PopularNames :
       \E i \in DOMAIN Popular : QuantityOf(name) = Popular[i].quantity

(***************************************************************************)
(* C8.  As claimed: total_orders is the number of distinct order_id        *)
(* values, avg_order_value is total_revenue / total_orders when            *)
(* total_orders > 0 and 0 otherwise, and an empty dataset is aggregated    *)
(* without failure.  (Both scalars are numbers of hundredths.)             *)
(***************************************************************************)
Metrics == StoredEntry.metrics
OrderIds == {OutputRows[i].order_id : i \in DOMAIN OutputRows}

C8_AverageIsQuotient ==
  UploadDone
    => /\ resp.status_code = OK
       /\ Metrics.total_orders = Cardinality(OrderIds)
       /\ Metrics.total_orders > 0
            => Metrics.avg_order_value * Metrics.total_orders = Metrics.total_revenue
       /\ Metrics.total_orders = 0 => Metrics.avg_order_value = 0

(***************************************************************************)
(* C8, amended.  As C8, with avg_order_value equal to                      *)
(* total_revenue / total_orders rounded to 2 decimal places.               *)
(***************************************************************************)
C8_AverageIsRoundedQuotient ==
  UploadDone
    => /\ resp.status_code = OK
       /\ Metrics.total_orders = Cardinality(OrderIds)
       /\ Metrics.total_orders > 0
            => LET diff == Metrics.avg_order_value * Metrics.total_orders
                             - Metrics.total_revenue
               IN  2 * diff <= Metrics.total_orders /\ -2 * diff <= Metrics.total_orders
       /\ Metrics.total_orders = 0 => Metrics.avg_order_value = 0

\* Three orders whose total revenue is not a multiple of three hundredths.
C8_Witness ==
  /\ UploadStored
  /\ Metrics.total_orders = 3
  /\ Metrics.total_revenue % 3 # 0
  /\ Len(OutputRows) > 3

(***************************************************************************)
(* C9.  For a non-empty dataset the revenues of daily_sales add up to      *)
(* total_revenue; daily_sales has one entry per distinct calendar date of  *)
(* order_datetime, in ascending date order, and each entry's revenue is    *)
(* the sum of the revenue of the rows of its date.                         *)
(***************************************************************************)
Daily == Metrics.daily_sales
DateNumber(text) == NumVal(SelectSeq(text, IsDigit))
RowDateNumber(row) ==
  (row.order_datetime[1].year * 100 + row.order_datetime[1].month) * 100
    + row.order_datetime[1].day
RevenueOn(n) ==
  SumOver([i \in DOMAIN OutputRows |->
             IF RowDateNumber(OutputRows[i]) = n /\ OutputRows[i].revenue # <<>>
             THEN OutputRows[i].revenue[1] ELSE 0],
          DOMAIN OutputRows)

C9_DailySalesPartitionRevenue ==
  (UploadStored /\ OutputRows # <<>>)
    => /\ 100 * SumOver([i \in DOMAIN Daily |-> Daily[i].revenue], DOMAIN Daily)
            = Metrics.total_revenue
       /\ {DateNumber(Daily[i].date) : i \in DOMAIN Daily}
            = {RowDateNumber(OutputRows[i]) : i \in DOMAIN OutputRows}
       /\ \A i, j \in DOMAIN Daily :
            i < j => DateNumber(Daily[i].date) < DateNumber(Daily[j].date)
       /\ \A i \in DOMAIN Daily :
            /\ Len(Daily[i].date) = 10
            /\ Daily[i].revenue = RevenueOn(DateNumber(Daily[i].date))

\* Rows of 12/31/2022 and of two days of January 2023, one day with two
\* rows, and a revenue that is not zero.
C9_Witness ==
  /\ UploadStored
  /\ Len(OutputRows) = 4
  /\ Len(Daily) = 3
  /\ Daily[1].date = Pad4(2022) \o <<"-">> \o Pad2(12) \o <<"-">> \o Pad2(31)
  /\ Metrics.total_revenue > 0

(***************************************************************************)
(* C10.  A row with no quantity gets quantity 1, a row with no total_price *)
(* gets its own unit_price, present values are kept, and the revenue of    *)
(* every retained row is its quantity times its total_price after the      *)
(* fill; two rows with quantity 2, unit_price 5 and no total_price give    *)
(* revenue 10 each and total_revenue 20.                                   *)
(***************************************************************************)
C10_FillThenRevenue ==
  UploadStored
    => /\ \A i \in DOMAIN OutputRows :
            LET in  == ParsingRows[i]
                out == OutputRows[i]
            IN  /\ out.quantity = IF in.quantity = <<>> THEN <<1>> ELSE in.quantity
                /\ out.total_price
                     = IF in.total_price = <<>> THEN in.unit_price ELSE in.total_price
                /\ out.unit_price = in.unit_price
                /\ out.revenue = IF out.total_price = <<>> THEN <<>>
                                 ELSE <<out.quantity[1] * out.total_price[1]>>
       /\ (Len(InputRows) = 2
           /\ \A i \in DOMAIN InputRows :
                /\ InputRows[i].quantity = <<2>>
                /\ InputRows[i].unit_price = <<5>>
                /\ InputRows[i].total_price = <<>>
                /\ Parses(InputRows[i]))
            => /\ \A i \in DOMAIN OutputRows :
                    OutputRows[i].total_price = <<5>> /\ OutputRows[i].revenue = <<10>>
               /\ Len(OutputRows) = 2
               /\ Metrics.total_revenue = 2000
               /\ Metrics.total_orders = Cardinality({InputRows[1].order_id,
                                                      InputRows[2].order_id})

\* The two rows of the example, of two orders, were uploaded, with a row
\* that had no quantity.
C10_Witness ==
  /\ UploadStored
  /\ Len(InputRows) = 3
  /\ InputRows[1].quantity = <<2>> /\ InputRows[1].total_price = <<>>
  /\ InputRows[2].quantity = <<2>> /\ InputRows[2].total_price = <<>>
  /\ InputRows[1].order_id # InputRows[2].order_id
  /\ InputRows[3].quantity = <<>>
  /\ Len(OutputRows) = 3
  /\ OutputRows[1].revenue = <<10>>
  /\ OutputRows[3].quantity = <<1>>

====
